---------------------------- MODULE Spec2Model ----------------------------
(***************************************************************************)
(* MinimaxPlayer of try4.py: a depth-limited minimax with alpha-beta       *)
(* pruning for Connect Four (6 rows, 7 columns, row 0 is the top row and   *)
(* row 5 the bottom row).  Cells hold 0 (empty), 1 (the player itself) or  *)
(* -1 (the opponent).                                                      *)
(***************************************************************************)
EXTENDS Integers, Sequences, FiniteSets

(***************************************************************************)
(* Program constants.                                                      *)
(***************************************************************************)
\* range(6): the rows of the board.
NumRows == 6
\* range(7): the columns of the board.
NumCols == 7
\* float('inf').  Every finite score is an integer far below this value:
\* at most 42 cells * 4 directions * 4 windows * 1000 plus smaller terms.
Inf == 10000000
\* Python's None where a move is expected: no legal move.
NoMove == -1
\* Python's None as the out-of-bounds placeholder of a line.
OutOfBounds == 2

Rows == 0 .. (NumRows - 1)
Cols == 0 .. (NumCols - 1)
Cells == {-1, 0, 1}

EmptyBoard == [r \in Rows |-> [c \in Cols |-> 0]]

Max2(a, b) == IF a >= b THEN a ELSE b
Min2(a, b) == IF a <= b THEN a ELSE b

(***************************************************************************)
(* The board model.                                                        *)
(***************************************************************************)

\* valid_moves = [c for c in range(7) if board[0, c] == 0], in ascending
\* order, as a sequence.
RECURSIVE ValidFrom(_, _)
ValidFrom(board, c) ==
    IF c >= NumCols THEN << >>
    ELSE IF board[0][c] = 0 THEN <<c>> \o ValidFrom(board, c + 1)
         ELSE ValidFrom(board, c + 1)

ValidMoves(board) == ValidFrom(board, 0)

\* A faulty variant of LandingRow: the column is scanned from the top row
\* down, so the piece stays in the first empty cell it meets.
LandingRowFromTop(board, move, i) ==
    IF \E r \in Rows : board[r][move] = 0
    THEN CHOOSE r \in Rows :
            board[r][move] = 0 /\ \A q \in Rows : q < r => board[q][move] # 0
    ELSE -1

\* The scan "for i in range(5, -1, -1)" of _apply_move: the lowest row (the
\* greatest index) of the column that is empty, or -1 when the loop ends
\* without finding one.
RECURSIVE LandingRow(_, _, _)
LandingRow(board, move, i) ==
    IF i < 0 THEN -1
    ELSE IF board[i][move] = 0 THEN i
         ELSE LandingRow(board, move, i - 1)

\* _apply_move: a copy of the board with the piece placed, the row and the
\* column.  raised is TRUE where the code raises ValueError (full column);
\* input is the content of the argument array when the call returns: the
\* piece is written to new_board = board.copy(), never to the argument.
ApplyMove(board, move, player) ==
    LET i == LandingRow(board, move, NumRows - 1)
    IN  IF i < 0
        THEN [board |-> board, row |-> -1, col |-> move, raised |-> TRUE,
              input |-> board]
        ELSE [board |-> [board EXCEPT ![i][move] = player],
              row |-> i, col |-> move, raised |-> FALSE, input |-> board]

\* The directions of _check_win and _score_position, in the code's order.
Directions == << <<1, 0>>, <<0, 1>>, <<1, 1>>, <<1, -1>> >>

InBounds(r, c) == 0 <= r /\ r < NumRows /\ 0 <= c /\ c < NumCols

\* A faulty variant of RunScan: the count is not reset by a cell that does
\* not match.
RunScanNoReset(board, player, row, col, dr, dc) ==
    LET Hit(step) == LET r == row + step * dr
                         c == col + step * dc
                     IN  InBounds(r, c) /\ board[r][c] = player
        n1 == IF Hit(-3) THEN 1 ELSE 0
        n2 == IF Hit(-2) THEN n1 + 1 ELSE n1
        n3 == IF Hit(-1) THEN n2 + 1 ELSE n2
        n4 == IF Hit(0) THEN n3 + 1 ELSE n3
        n5 == IF Hit(1) THEN n4 + 1 ELSE n4
        n6 == IF Hit(2) THEN n5 + 1 ELSE n5
        n7 == IF Hit(3) THEN n6 + 1 ELSE n6
    IN  n4 = 4 \/ n5 = 4 \/ n6 = 4 \/ n7 = 4

\* The inner loop of _check_win along one direction, "for i in range(-3, 4)",
\* written out for its seven steps: nk is the value of count after step k,
\* one more than before on a cell of the player inside the board and 0 on
\* any other.  The loop returns True at the first step where count is 4,
\* which is step four, five, six or seven.
RunScan(board, player, row, col, dr, dc) ==
    LET Hit(step) == LET r == row + step * dr
                         c == col + step * dc
                     IN  InBounds(r, c) /\ board[r][c] = player
        n1 == IF Hit(-3) THEN 1 ELSE 0
        n2 == IF Hit(-2) THEN n1 + 1 ELSE 0
        n3 == IF Hit(-1) THEN n2 + 1 ELSE 0
        n4 == IF Hit(0) THEN n3 + 1 ELSE 0
        n5 == IF Hit(1) THEN n4 + 1 ELSE 0
        n6 == IF Hit(2) THEN n5 + 1 ELSE 0
        n7 == IF Hit(3) THEN n6 + 1 ELSE 0
    IN  n4 = 4 \/ n5 = 4 \/ n6 = 4 \/ n7 = 4

\* _check_win
CheckWin(board, player, row, col) ==
    \E d \in 1 .. 4 :
        RunScan(board, player, row, col, Directions[d][1], Directions[d][2])


(***************************************************************************)
(* The static evaluators.                                                  *)
(***************************************************************************)

\* sum(F(i) for i in range(lo, hi + 1)): the accumulation "score += ..." of
\* the evaluators' loops.
RECURSIVE SumOver(_, _, _)
SumOver(F(_), lo, hi) ==
    IF lo > hi THEN 0 ELSE F(lo) + SumOver(F, lo + 1, hi)

\* [F(i) for i in range(lo, hi + 1)], as a sequence.
RECURSIVE Collect(_, _, _)
Collect(F(_), lo, hi) ==
    IF lo > hi THEN << >> ELSE <<F(lo)>> \o Collect(F, lo + 1, hi)

\* A local name: the value e is computed once and the statements F read it.
With(e, F(_)) == F(e)

\* window.count(v) for window = line[i:i + 4]; line is indexed from 1 here.
WindowCount(line, i, v) ==
      (IF line[i + 1] = v THEN 1 ELSE 0) + (IF line[i + 2] = v THEN 1 ELSE 0)
    + (IF line[i + 3] = v THEN 1 ELSE 0) + (IF line[i + 4] = v THEN 1 ELSE 0)

\* One iteration of the loop of _evaluate_line: the if/elif chain.
WindowScore(line, i, player) ==
    LET mine  == WindowCount(line, i, player)
        empty == WindowCount(line, i, 0)
        other == WindowCount(line, i, -player)
    IN  IF mine = 4 THEN 1000
        ELSE IF mine = 3 /\ empty = 1 THEN 15
        ELSE IF mine = 2 /\ empty = 2 THEN 7
        ELSE IF other = 3 /\ empty = 1 THEN -20
        ELSE 0

\* _evaluate_line: for i in range(len(line) - 3), with len(line) = 7.
EvaluateLine(line, player) ==
    LET W(i) == WindowScore(line, i, player)
    IN  SumOver(W, 0, 3)

\* The line of 7 cells through (row, col) in direction (dr, dc), one cell for
\* each step of range(-3, 4), the placeholder where the cell is out of
\* bounds.
LineThrough(board, row, col, dr, dc) ==
    LET At(step) ==
            LET r == row + step * dr
                c == col + step * dc
            IN  IF InBounds(r, c) THEN board[r][c] ELSE OutOfBounds
    IN  << At(-3), At(-2), At(-1), At(0), At(1), At(2), At(3) >>

\* _score_position
ScorePosition(board, row, col, player) ==
    LET D(d) == EvaluateLine(LineThrough(board, row, col,
                                         Directions[d][1], Directions[d][2]),
                             player)
    IN  SumOver(D, 1, 4)

\* A loop "score += F(i)" over range(lo, hi + 1) whose body may raise: the
\* first iteration that raises ends the loop, as the exception does.
RECURSIVE Accumulate(_, _, _, _)
Accumulate(F(_), lo, hi, acc) ==
    IF lo > hi THEN [score |-> acc, raised |-> FALSE]
    ELSE With(F(lo), LAMBDA x :
            IF x.raised THEN [score |-> acc, raised |-> TRUE]
            ELSE Accumulate(F, lo + 1, hi, acc + x.score))

\* The statements of _detect_forks and _simple_evaluate_board that follow a
\* call of _apply_move with result t: _check_win for player at the cell the
\* piece landed on, worth hit when it holds.
WinAt(t, player, hit) ==
    [score  |-> IF CheckWin(t.board, player, t.row, t.col) THEN hit ELSE 0,
     raised |-> t.raised]

\* "if winning_moves > 1: fork_score += 50"
ForkScore(winning_moves) ==
    [score  |-> IF winning_moves.score > 1 THEN 50 ELSE 0,
     raised |-> winning_moves.raised]

\* A faulty variant of ForkAt: the test "simulated_board[0, move] == 0" is
\* left out.
ForkAtUnguarded(board, c, player) ==
    With(ApplyMove(board, c, player), LAMBDA sim :
        IF sim.raised THEN [score |-> 0, raised |-> TRUE]
        ELSE LET Try(move) == WinAt(ApplyMove(sim.board, move, player), player, 1)
             IN  ForkScore(Accumulate(Try, 0, NumCols - 1, 0)))

\* The body of the loop over empty cells of _detect_forks for column c: the
\* move is applied to column c, then every column whose top cell is empty is
\* tried; the score is 50 when more than one of them wins.
ForkAt(board, c, player) ==
    With(ApplyMove(board, c, player), LAMBDA sim :
        IF sim.raised THEN [score |-> 0, raised |-> TRUE]
        ELSE LET Try(move) ==
                     IF sim.board[0][move] = 0
                     THEN WinAt(ApplyMove(sim.board, move, player), player, 1)
                     ELSE [score |-> 0, raised |-> FALSE]
             IN  ForkScore(Accumulate(Try, 0, NumCols - 1, 0)))

\* _detect_forks: for r in range(6), for c in range(7), the cells that are
\* empty.  The loop body reads the cell's column only, so its value is
\* computed once for every column that has an empty cell (fork, a sequence
\* indexed from 1) and used for each empty cell of that column.
DetectForks(board, player) ==
    LET Of(c) == IF \E r \in Rows : board[r][c] = 0
                 THEN ForkAt(board, c, player)
                 ELSE [score |-> 0, raised |-> FALSE]
        fork == Collect(Of, 0, NumCols - 1)
        Row(r) ==
            LET Cell(c) == IF board[r][c] = 0 THEN fork[c + 1]
                           ELSE [score |-> 0, raised |-> FALSE]
            IN  Accumulate(Cell, 0, NumCols - 1, 0)
    IN  Accumulate(Row, 0, NumRows - 1, 0)

\* A faulty variant of CenterCount: the column next to the middle one is
\* counted.
CenterCountOffByOne(board) ==
    LET Center(i) == IF board[i][4] = 1 THEN 1 ELSE 0
    IN  SumOver(Center, 0, NumRows - 1)

\* center_array.count(1) for center_array = [board[i, 3] for i in range(6)]
CenterCount(board) ==
    LET Center(i) == IF board[i][3] = 1 THEN 1 ELSE 0
    IN  SumOver(Center, 0, NumRows - 1)

\* The return statement of _evaluate_board, for the three terms' values;
\* mine and other are the results of _detect_forks for 1 and for -1.
BoardScore(center_count, lines, mine, other) ==
    IF mine.raised \/ other.raised THEN [score |-> 0, raised |-> TRUE]
    ELSE [score  |-> center_count * 4 + lines + mine.score - other.score,
          raised |-> FALSE]

\* _evaluate_board
EvaluateBoard(board) ==
    LET Cell(r, c) == IF board[r][c] = 0 THEN 0
                      ELSE ScorePosition(board, r, c, 1)
                           - ScorePosition(board, r, c, -1)
        Row(r) == LET C(c) == Cell(r, c) IN SumOver(C, 0, NumCols - 1)
    IN  BoardScore(CenterCount(board), SumOver(Row, 0, NumRows - 1),
                   DetectForks(board, 1), DetectForks(board, -1))

\* One iteration of the loop of _simple_evaluate_board; the second check is
\* made on new_board, the board that holds the player's own piece.
SimpleAt(board, move) ==
    IF board[0][move] = 0
    THEN With(ApplyMove(board, move, 1), LAMBDA m :
            With(WinAt(m, 1, 100), LAMBDA mine :
                IF mine.score # 0 THEN mine ELSE WinAt(m, -1, -100)))
    ELSE [score |-> 0, raised |-> FALSE]

\* _simple_evaluate_board
SimpleEvaluateBoard(board) ==
    LET S(move) == SimpleAt(board, move)
    IN  Accumulate(S, 0, NumCols - 1, 0)


(***************************************************************************)
(* The search.  self is the player object: [heuristic, max_depth].         *)
(* A result is [score, move, raised]; raised is TRUE where the call ends   *)
(* with the ValueError of _apply_move.                                     *)
(***************************************************************************)
Raised == [score |-> 0, move |-> NoMove, raised |-> TRUE]

\* A faulty variant of AfterLoop: no fallback to the first valid move.
AfterLoopNoFallback(valid_moves, eval, best_move) ==
    [score |-> eval, move |-> best_move, raised |-> FALSE]

\* The statements after either loop of _minimax: the fallback to the first
\* valid move and the return.
AfterLoop(valid_moves, eval, best_move) ==
    [score  |-> eval,
     move   |-> IF best_move = NoMove THEN valid_moves[1] ELSE best_move,
     raised |-> FALSE]

\* A faulty variant of Exceeds: a later column with an equal score replaces
\* the best.
ExceedsOrTies(eval_score, max_eval) == eval_score >= max_eval

\* "if eval_score > max_eval": a later column replaces the best one only
\* with a strictly greater score.
Exceeds(eval_score, max_eval) == eval_score > max_eval

\* "if eval_score < min_eval"
Undercuts(eval_score, min_eval) == eval_score < min_eval

RECURSIVE Minimax(_, _, _, _, _, _)
RECURSIVE MaxLoop(_, _, _, _, _, _, _, _, _)
RECURSIVE MinLoop(_, _, _, _, _, _, _, _, _)

\* The loop "for move in valid_moves" of the maximizing branch, from the
\* k-th valid move on, with the current alpha, max_eval and best_move.
MaxLoop(self, board, depth, valid_moves, k, alpha, beta, max_eval, best_move) ==
    IF k > Len(valid_moves) THEN AfterLoop(valid_moves, max_eval, best_move)
    ELSE
      With(ApplyMove(board, valid_moves[k], 1), LAMBDA m :
        IF m.raised THEN Raised
        ELSE IF CheckWin(m.board, 1, m.row, m.col)
        THEN [score |-> Inf, move |-> valid_moves[k], raised |-> FALSE]
        ELSE
          With(Minimax(self, m.board, depth - 1, FALSE, alpha, beta), LAMBDA sub :
            IF sub.raised THEN Raised
            ELSE
              LET better   == Exceeds(sub.score, max_eval)
                  new_eval == IF better THEN sub.score ELSE max_eval
                  new_best == IF better THEN valid_moves[k] ELSE best_move
                  new_alpha == Max2(alpha, sub.score)
              IN  IF beta <= new_alpha
                  THEN AfterLoop(valid_moves, new_eval, new_best)
                  ELSE MaxLoop(self, board, depth, valid_moves, k + 1,
                               new_alpha, beta, new_eval, new_best)))

\* The loop of the minimizing branch.
MinLoop(self, board, depth, valid_moves, k, alpha, beta, min_eval, best_move) ==
    IF k > Len(valid_moves) THEN AfterLoop(valid_moves, min_eval, best_move)
    ELSE
      With(ApplyMove(board, valid_moves[k], -1), LAMBDA m :
        IF m.raised THEN Raised
        ELSE IF CheckWin(m.board, -1, m.row, m.col)
        THEN [score |-> -Inf, move |-> valid_moves[k], raised |-> FALSE]
        ELSE
          With(Minimax(self, m.board, depth - 1, TRUE, alpha, beta), LAMBDA sub :
            IF sub.raised THEN Raised
            ELSE
              LET better   == Undercuts(sub.score, min_eval)
                  new_eval == IF better THEN sub.score ELSE min_eval
                  new_best == IF better THEN valid_moves[k] ELSE best_move
                  new_beta  == Min2(beta, sub.score)
              IN  IF new_beta <= alpha
                  THEN AfterLoop(valid_moves, new_eval, new_best)
                  ELSE MinLoop(self, board, depth, valid_moves, k + 1,
                               alpha, new_beta, new_eval, new_best)))

\* The evaluator the player was constructed with.
Evaluate(self, board) ==
    IF self.heuristic THEN EvaluateBoard(board) ELSE SimpleEvaluateBoard(board)

\* The return statements of lines 54 and 56 for the evaluator's result e.
Leaf(e, valid_moves) ==
    [score  |-> e.score,
     move   |-> IF valid_moves # << >> THEN valid_moves[1] ELSE NoMove,
     raised |-> e.raised]

\* _minimax
Minimax(self, board, depth, maximizing_player, alpha, beta) ==
    With(ValidMoves(board), LAMBDA valid_moves :
        IF depth = 0 \/ valid_moves = << >>
        THEN Leaf(Evaluate(self, board), valid_moves)
        ELSE IF maximizing_player
        THEN MaxLoop(self, board, depth, valid_moves, 1, alpha, beta, -Inf, NoMove)
        ELSE MinLoop(self, board, depth, valid_moves, 1, alpha, beta, Inf, NoMove))

\* _minimax_decision: the root call; the caller keeps move (and raised).
MinimaxDecision(self, observation) ==
    Minimax(self, observation, self.max_depth, TRUE, -Inf, Inf)


(***************************************************************************)
(* The state.  The environment holds the board and passes it to the        *)
(* player as the observation when it is the player's turn.                 *)
(***************************************************************************)
VARIABLES
    self,        \* the player object: [heuristic, max_depth]
    board,       \* the board of the game in progress, the observation
    won,         \* what _check_win returned for the last move
    to_move,     \* the player to move: 1 is the player itself, -1 the opponent
    ply,         \* the number of moves made
    game,        \* the recorded game the environment follows (0: none)
    pc,          \* "observe": play not called on this board; "decided": it returned
    decision     \* the result of the root call of _minimax made by play

vars == <<self, board, won, to_move, ply, game, pc, decision>>

(***************************************************************************)
(* Bounds and inputs.                                                      *)
(***************************************************************************)
\* The greatest max_depth the player is constructed with when it uses the
\* simple evaluator.
MaxDepth == 3
\* The greatest max_depth with the heuristic evaluator: the configuration
\* the script constructs, MinimaxPlayer(max_depth=2, heuristic=True).
HeuristicDepth == 2
\* The number of moves of a game that is played freely.
MaxPlies == 7

\* Recorded games: who moves first and the columns played in turn.  The
\* first is played until the board is full; in the second the opponent
\* comes to threaten two cells of column 5, one on top of the other.
Games ==
    << [first |-> 1,
        moves |-> <<3, 3, 2, 2, 4, 4, 3, 1, 1, 6, 1, 4, 0, 6, 6, 1, 0, 5, 0, 2, 6,
                    1, 5, 0, 2, 2, 0, 4, 6, 3, 2, 6, 5, 3, 3, 0, 1, 5, 4, 5, 5, 4>>],
       [first |-> -1,
        moves |-> <<3, 3, 4, 3, 3, 3, 6, 4, 4>>] >>

Players ==
    {[heuristic |-> TRUE, max_depth |-> d] : d \in 0 .. HeuristicDepth}
    \cup {[heuristic |-> FALSE, max_depth |-> d] : d \in 0 .. MaxDepth}

\* No call of play has returned for the current board.
NoDecision == [score |-> 0, move |-> NoMove, raised |-> FALSE]

(***************************************************************************)
(* The environment.                                                        *)
(***************************************************************************)

\* One move of the game: the piece of the player to move is dropped into a
\* column whose top cell is empty, and the game ends when it wins.
Place(move) ==
    /\ ~won
    /\ board[0][move] = 0
    /\ LET m == ApplyMove(board, move, to_move)
       IN  board' = m.board
    /\ LET m == ApplyMove(board, move, to_move)
       IN  won' = CheckWin(m.board, to_move, m.row, m.col)
    /\ to_move' = -to_move
    /\ ply' = ply + 1
    /\ pc' = "observe"
    /\ decision' = NoDecision
    /\ UNCHANGED <<self, game>>

InitBoard ==
    /\ board = EmptyBoard
    /\ won = FALSE
    /\ ply = 0
    /\ pc = "observe"
    /\ decision = NoDecision

\* A game played freely, either player moving first.
InitFree ==
    /\ InitBoard
    /\ self = [heuristic |-> TRUE, max_depth |-> HeuristicDepth]
    /\ game = 0
    /\ to_move \in {1, -1}

FreeMove ==
    \E move \in Cols : ply < MaxPlies /\ Place(move)

SpecBoard == InitFree /\ [][FreeMove]_vars

\* A recorded game, and a player of any configuration.
Init ==
    /\ InitBoard
    /\ self \in Players
    /\ game \in 1 .. Len(Games)
    /\ to_move = Games[game].first

Replay ==
    /\ ply < Len(Games[game].moves)
    /\ Place(Games[game].moves[ply + 1])

\* play(obs) for a single observation, called when it is the player's turn.
Play ==
    /\ pc = "observe"
    /\ to_move = 1
    /\ ~won
    /\ decision' = MinimaxDecision(self, board)
    /\ pc' = "decided"
    /\ UNCHANGED <<self, board, won, to_move, ply, game>>

Next == Replay \/ Play

Spec == Init /\ [][Next]_vars


(***************************************************************************)
(* Reference definitions used to state the properties.                     *)
(***************************************************************************)

\* A scan of the whole board: four cells of player p in a row, a column or
\* a diagonal.
HasFour(b, p) ==
    \E r \in Rows, c \in Cols :
        /\ b[r][c] = p
        /\ \E d \in 1 .. 4 :
              \A k \in 1 .. 3 :
                 LET r2 == r + k * Directions[d][1]
                     c2 == c + k * Directions[d][2]
                 IN  InBounds(r2, c2) /\ b[r2][c2] = p

NoFour(b) == ~HasFour(b, 1) /\ ~HasFour(b, -1)

\* In every column the pieces lie on the bottom row and on each other.
Gravity(b) ==
    \A c \in Cols : \A r \in 0 .. (NumRows - 2) :
        b[r][c] # 0 => b[r + 1][c] # 0

Full(b) == \A c \in Cols : b[0][c] # 0

\* The columns in which a piece of player p completes four in a row.
WinningColumns(b, p) ==
    {c \in Cols :
        /\ b[0][c] = 0
        /\ LET m == ApplyMove(b, c, p)
           IN  HasFour(m.board, p)}

\* Minimax over the same tree with the break "if beta <= alpha" removed.
RECURSIVE FullMinimax(_, _, _, _)
RECURSIVE FullLoop(_, _, _, _, _, _, _, _)

FullLoop(s, b, depth, maximizing, valid_moves, k, eval, best_move) ==
    IF k > Len(valid_moves) THEN AfterLoop(valid_moves, eval, best_move)
    ELSE
      LET move   == valid_moves[k]
          player == IF maximizing THEN 1 ELSE -1
          m      == ApplyMove(b, move, player)
      IN  IF CheckWin(m.board, player, m.row, m.col)
          THEN [score  |-> IF maximizing THEN Inf ELSE -Inf,
                move   |-> move,
                raised |-> FALSE]
          ELSE
            LET sub    == FullMinimax(s, m.board, depth - 1, ~maximizing)
                better == IF maximizing THEN sub.score > eval
                          ELSE sub.score < eval
            IN  FullLoop(s, b, depth, maximizing, valid_moves, k + 1,
                         IF better THEN sub.score ELSE eval,
                         IF better THEN move ELSE best_move)

FullMinimax(s, b, depth, maximizing) ==
    LET valid_moves == ValidMoves(b)
    IN  IF depth = 0 \/ valid_moves = << >>
        THEN [score  |-> Evaluate(s, b).score,
              move   |-> IF valid_moves # << >> THEN valid_moves[1] ELSE NoMove,
              raised |-> FALSE]
        ELSE FullLoop(s, b, depth, maximizing, valid_moves, 1,
                      IF maximizing THEN -Inf ELSE Inf, NoMove)

\* The minimax value of playing column c on board b with depth plies left.
ColumnValue(s, b, depth, c) ==
    LET m == ApplyMove(b, c, 1)
    IN  IF CheckWin(m.board, 1, m.row, m.col) THEN Inf
        ELSE FullMinimax(s, m.board, depth - 1, FALSE).score

Decided == pc = "decided"


(***************************************************************************)
(* Properties of the search, under Spec.                                   *)
(***************************************************************************)

\* C1: for a board without four in a row and a depth of at least 1, the
\* root call returns the score and the column that minimax without the
\* pruning break returns.
C1_PruningEquivalence ==
    (Decided /\ self.max_depth >= 1 /\ NoFour(board)) =>
        LET full == FullMinimax(self, board, self.max_depth, TRUE)
        IN  decision.score = full.score /\ decision.move = full.move

\* C2: when some legal column completes four in a row for the player, play
\* returns a column that completes four in a row.
C2_ImmediateWin ==
    (Decided /\ self.max_depth >= 1 /\ NoFour(board)
       /\ WinningColumns(board, 1) # {}) =>
        decision.move \in WinningColumns(board, 1)

\* C3: with the heuristic evaluator and a depth of at least 2, when the
\* player has no winning column and the opponent has exactly one, play
\* returns that column.
C3_MustBlock ==
    (Decided /\ self.heuristic /\ self.max_depth >= 2
       /\ WinningColumns(board, 1) = {}
       /\ Cardinality(WinningColumns(board, -1)) = 1) =>
        decision.move \in WinningColumns(board, -1)

\* C4: play ends without an exception; it returns None exactly when no
\* column has an empty top cell, and otherwise a column from 0 to 6 whose
\* top cell is empty.
C4_ResultRange ==
    Decided =>
        /\ ~decision.raised
        /\ (decision.move = NoMove) <=> Full(board)
        /\ decision.move # NoMove =>
              (decision.move \in Cols /\ board[0][decision.move] = 0)

\* The full board was observed and play returned None.
C4_Witness ==
    Decided /\ Full(board) /\ decision.move = NoMove /\ ~decision.raised

\* C6: on a board that satisfies gravity no call of _apply_move made by the
\* search or by either evaluator raises.
C6_NoInvalidMove ==
    (Decided /\ Gravity(board)) => decision.raised = FALSE

\* play returned for a board with a full column next to columns with room,
\* searched two plies deep with the heuristic evaluator.
C6_Witness ==
    /\ Decided
    /\ self = [heuristic |-> TRUE, max_depth |-> 2]
    /\ \E c \in Cols : board[0][c] # 0
    /\ \E c \in Cols : board[0][c] = 0
    /\ ~decision.raised

\* C7: on the empty board, with depth 2 and the heuristic evaluator, play
\* returns column 3.
C7_EmptyBoardCenter ==
    (Decided /\ board = EmptyBoard
       /\ self = [heuristic |-> TRUE, max_depth |-> 2]) =>
        decision.move = 3

C7_Witness ==
    /\ Decided
    /\ board = EmptyBoard
    /\ self = [heuristic |-> TRUE, max_depth |-> 2]
    /\ decision.move = 3

\* C9: the simple evaluator's score is the sum over the legal columns of
\* +100 when the player's piece there completes four in a row, otherwise
\* -100 when an opponent's piece on the same cell would, otherwise 0.
C9_SimpleEvaluator ==
    LET Expected(c) ==
            IF board[0][c] # 0 THEN 0
            ELSE IF c \in WinningColumns(board, 1) THEN 100
            ELSE IF c \in WinningColumns(board, -1) THEN -100
            ELSE 0
    IN  SimpleEvaluateBoard(board).score = SumOver(Expected, 0, NumCols - 1)

\* C10: the column returned by the root search is the lowest legal column
\* whose minimax value equals the returned score, and that score is the
\* greatest of the columns' values.
C10_TieBreak ==
    (Decided /\ self.max_depth >= 1 /\ ~Full(board) /\ NoFour(board)) =>
        LET legal == {c \in Cols : board[0][c] = 0}
            value == [c \in legal |->
                         ColumnValue(self, board, self.max_depth, c)]
        IN  /\ decision.move \in legal
            /\ value[decision.move] = decision.score
            /\ \A c \in legal : value[c] <= decision.score
            /\ \A c \in legal : c < decision.move => value[c] # decision.score

\* Every column loses and the first legal column was returned.
C10_Witness ==
    /\ Decided
    /\ self.max_depth >= 1
    /\ decision.score = -Inf
    /\ ValidMoves(board) # << >>
    /\ decision.move = ValidMoves(board)[1]

(***************************************************************************)
(* Properties of the board model, under SpecBoard.                         *)
(***************************************************************************)

\* C5: every board reached from the empty board by legal moves satisfies
\* gravity, and _apply_move on a legal column returns a board that differs
\* from its argument in the one cell where the piece landed, the lowest
\* empty cell of the column, which was empty and now holds the mover's
\* value; the argument is left as it was.
C5_MoveInvariant ==
    /\ Gravity(board)
    /\ \A c \in Cols : \A p \in {1, -1} :
          board[0][c] = 0 =>
             LET m == ApplyMove(board, c, p)
             IN  /\ ~m.raised
                 /\ m.col = c
                 /\ m.row \in Rows
                 /\ board[m.row][c] = 0
                 /\ \A r \in Rows : r > m.row => board[r][c] # 0
                 /\ m.board = [board EXCEPT ![m.row][c] = p]
                 /\ m.input = board

\* Six moves filled a column, and the game went on.
C5_Witness ==
    /\ ply > 6
    /\ \E c \in Cols : board[0][c] # 0

=============================================================================
